---- MODULE Spec2Model ----
(***************************************************************************)
(* Model of the review bot's diff-anchor and suggestion-mapping code       *)
(* (src/review_bot/main.py).                                               *)
(*                                                                         *)
(* Representation of text.  A multi-line text (a patch, a file's content,  *)
(* the review document, a part body) is the sequence of its lines, i.e.    *)
(* the value of str.splitlines(); "\n".join(xs) is the sequence xs itself. *)
(* A line is a TLA+ string, and the str methods and regular expressions    *)
(* the code applies to a line are computed on its characters.  The empty   *)
(* text "" is the empty sequence; None and "" are both falsy in the code   *)
(* and are both written "" (a string) or << >> (a text).  A string of this  *)
(* module cannot hold the grave accent, so the tilde stands for it: the    *)
(* fence of a suggestion block is written "~~~suggestion".                 *)
(***************************************************************************)
EXTENDS Integers, Sequences, FiniteSets, TLC

VARIABLES
    pc,         \* position of the modelled call
    patch,      \* diff_anchor_lines: the patch argument
    k,          \* diff_anchor_lines: index of the line ln the loop is at
    head,       \* diff_anchor_lines: local head
    adds,       \* diff_anchor_lines: local adds
    ctx,        \* diff_anchor_lines: local ctx
    anchors,    \* diff_anchor_lines: the returned list
    md,         \* split_llm_parts: the review document
    files,      \* the changed files, dicts with "path" and "content"
    per,        \* split_llm_parts: the returned dict / per_file_from_llm
    text,       \* extract_source_sections: the text argument
    spans,      \* extract_source_sections: the returned list
    found,      \* static_suggestions_for_section results over all sections
    meta,       \* ensure_actionable_parts: the pull request's file list
    out,        \* ensure_actionable_parts: the returned dict
    actionable, \* main: the dict ensure_actionable_parts returned
    fi,         \* main: index of the item of actionable the outer loop is at
    pi,         \* main: index of the part the inner loop is at
    posted,     \* main: local posted
    sent,       \* the inline-comment payloads handed to gh, in order
    accepted,   \* how many of them gh answered without an error status
    note,       \* the body of the fallback issue comment handed to gh
    first_added \* first_added_line_from_patch: the returned line

vars == <<pc, patch, k, head, adds, ctx, anchors, md, files, per, text, spans,
          found, meta, out, actionable, fi, pi, posted, sent, accepted, note,
          first_added>>

diffVars == <<patch, k, head, adds, ctx, anchors>>
splitVars == <<md, per>>
sectVars == <<text, spans, found>>
mapVars == <<meta, out>>
mainVars == <<actionable, fi, pi, posted, sent, accepted, note>>
firstVars == <<first_added>>

----------------------------------------------------------------------------
(* Bounds of the model.                                                    *)

MaxPatchLen == 3    \* lines of a patch handed to diff_anchor_lines alone
MaxDocLen == 4      \* lines of the review document
MaxFiles == 2       \* changed files handed to split_llm_parts
MaxTextLen == 3     \* lines of a file handed to extract_source_sections
MapPatchLen == 3    \* lines of a patch handed to ensure_actionable_parts
MapTextLen == 2     \* lines of a file handed to ensure_actionable_parts
MaxParts == 2       \* document parts of a file handed to it

----------------------------------------------------------------------------
(* Python str methods, on TLA+ strings.                                    *)

Char(s, i) == SubSeq(s, i, i)

StartsWith(s, p) == Len(s) >= Len(p) /\ SubSeq(s, 1, Len(p)) = p

EndsWith(s, p) == Len(s) >= Len(p) /\ SubSeq(s, Len(s) - Len(p) + 1, Len(s)) = p

\* sub in s
Contains(s, sub) ==
    \E i \in 1..(Len(s) - Len(sub) + 1) : SubSeq(s, i, i + Len(sub) - 1) = sub

\* the characters \s matches, of those that occur within a line
IsSpace(c) == c \in {" ", "\t"}

IsDigit(c) == c \in {"0", "1", "2", "3", "4", "5", "6", "7", "8", "9"}

DigitVal(c) ==
    CASE c = "0" -> 0 [] c = "1" -> 1 [] c = "2" -> 2 [] c = "3" -> 3
      [] c = "4" -> 4 [] c = "5" -> 5 [] c = "6" -> 6 [] c = "7" -> 7
      [] c = "8" -> 8 [] c = "9" -> 9

UpperChars == <<"A", "B", "C", "D", "E", "F", "G", "H", "I", "J", "K", "L", "M",
                "N", "O", "P", "Q", "R", "S", "T", "U", "V", "W", "X", "Y", "Z">>
LowerChars == <<"a", "b", "c", "d", "e", "f", "g", "h", "i", "j", "k", "l", "m",
                "n", "o", "p", "q", "r", "s", "t", "u", "v", "w", "x", "y", "z">>

LowerChar(c) ==
    IF \E i \in 1..26 : UpperChars[i] = c
    THEN LowerChars[CHOOSE i \in 1..26 : UpperChars[i] = c]
    ELSE c

\* \w of the regular expressions
IsWordChar(c) ==
    \/ IsDigit(c)
    \/ c = "_"
    \/ \E i \in 1..26 : UpperChars[i] = c \/ LowerChars[i] = c

RECURSIVE Lower(_)
Lower(s) == IF s = "" THEN "" ELSE LowerChar(Char(s, 1)) \o Lower(SubSeq(s, 2, Len(s)))

RECURSIVE LStrip(_)
LStrip(s) ==
    IF s # "" /\ IsSpace(Char(s, 1)) THEN LStrip(SubSeq(s, 2, Len(s))) ELSE s

RECURSIVE RStrip(_)
RStrip(s) ==
    IF s # "" /\ IsSpace(Char(s, Len(s))) THEN RStrip(SubSeq(s, 1, Len(s) - 1)) ELSE s

Strip(s) == LStrip(RStrip(s))

\* index of the first character at or after i that is not a digit
RECURSIVE DigitsEnd(_, _)
DigitsEnd(s, i) ==
    IF i <= Len(s) /\ IsDigit(Char(s, i)) THEN DigitsEnd(s, i + 1) ELSE i

\* int() of a string of digits
RECURSIVE ToInt(_)
ToInt(s) ==
    IF s = "" THEN 0
    ELSE 10 * ToInt(SubSeq(s, 1, Len(s) - 1)) + DigitVal(Char(s, Len(s)))

\* index of the first character at or after i that is not white space
RECURSIVE SpacesEnd(_, _)
SpacesEnd(s, i) ==
    IF i <= Len(s) /\ IsSpace(Char(s, i)) THEN SpacesEnd(s, i + 1) ELSE i

\* "".join(xs)
RECURSIVE JoinStr(_)
JoinStr(xs) == IF xs = << >> THEN "" ELSE Head(xs) \o JoinStr(Tail(xs))

Range(xs) == {xs[i] : i \in DOMAIN xs}

\* all sequences over S of length at most n
SeqsUpTo(S, n) == UNION {[1..m -> S] : m \in 0..n}

----------------------------------------------------------------------------
(* diff_anchor_lines                                                       *)

\* re.match(r"@@ -\d+(?:,\d+)? \+(\d+)", ln): the value of int(m.group(1)),
\* or -1 when the line does not match
HunkStart(ln) ==
    IF ~StartsWith(ln, "@@ -") THEN -1
    ELSE LET a == DigitsEnd(ln, 5)
             b == IF a > 5 /\ a <= Len(ln) /\ Char(ln, a) = ","
                       /\ DigitsEnd(ln, a + 1) > a + 1
                  THEN DigitsEnd(ln, a + 1) ELSE a
             e == DigitsEnd(ln, b + 2)
         IN  IF a > 5 /\ b + 1 <= Len(ln) /\ SubSeq(ln, b, b + 1) = " +" /\ e > b + 2
             THEN ToInt(SubSeq(ln, b + 2, e - 1))
             ELSE -1

\* ln.startswith('+') and not ln.startswith('+++')
IsAddBranch(ln) == StartsWith(ln, "+") /\ ~StartsWith(ln, "+++")

\* ln.startswith(' ') or (ln and ln[0] not in '+-@')
IsCtxBranch(ln) ==
    StartsWith(ln, " ") \/ (ln # "" /\ Char(ln, 1) \notin {"+", "-", "@"})

\* the body of the loop over patch.splitlines(), on the locals (head, adds, ctx)
DiffLineMutRemovalCounts(st, ln) ==
    IF HunkStart(ln) # -1 THEN [st EXCEPT !.head = HunkStart(ln)]
    ELSE IF IsAddBranch(ln)
    THEN [st EXCEPT !.adds = Append(st.adds, st.head), !.head = st.head + 1]
    ELSE IF IsCtxBranch(ln)
    THEN [st EXCEPT !.ctx = Append(st.ctx, st.head), !.head = st.head + 1]
    ELSE IF StartsWith(ln, "-") THEN [st EXCEPT !.head = st.head + 1]
    ELSE st

DiffLine(st, ln) ==
    IF HunkStart(ln) # -1 THEN [st EXCEPT !.head = HunkStart(ln)]
    ELSE IF IsAddBranch(ln)
    THEN [st EXCEPT !.adds = Append(st.adds, st.head), !.head = st.head + 1]
    ELSE IF IsCtxBranch(ln)
    THEN [st EXCEPT !.ctx = Append(st.ctx, st.head), !.head = st.head + 1]
    ELSE st

\* return (adds + ctx) or [1]
DiffResultMutCtxFirst(a, c) == IF c \o a = << >> THEN <<1>> ELSE c \o a

DiffResult(a, c) == IF a \o c = << >> THEN <<1>> ELSE a \o c

RECURSIVE DiffFold(_, _)
DiffFold(st, lns) ==
    IF lns = << >> THEN st ELSE DiffFold(DiffLine(st, Head(lns)), Tail(lns))

\* the whole function, as ensure_actionable_parts calls it
diff_anchor_lines(p) ==
    IF p = << >> THEN <<1>>
    ELSE LET st == DiffFold([head |-> 1, adds |-> << >>, ctx |-> << >>], p)
         IN  DiffResult(st.adds, st.ctx)

\* the lines a patch handed to diff_anchor_lines is made of
DiffLines ==
    {"@@ -1,2 +1,3 @@", "@@ -7 +3 @@", "@@ bad", "+x = 1", "+++ b/f.py", " x = 1",
     "-x = 1", "--- a/f.py", "\\ No newline at end of file", ""}

InitDiff ==
    /\ pc = "diff_entry"
    /\ patch \in SeqsUpTo(DiffLines, MaxPatchLen)
    /\ k = 0 /\ head = 0 /\ adds = << >> /\ ctx = << >> /\ anchors = << >>
    /\ md = << >> /\ files = << >> /\ per = << >>
    /\ text = << >> /\ spans = << >> /\ found = << >>
    /\ meta = << >> /\ out = << >>
    /\ actionable = << >> /\ fi = 0 /\ pi = 0 /\ posted = 0
    /\ sent = << >> /\ accepted = 0 /\ note = << >> /\ first_added = 0

\* if not patch: return [1]
DiffEmpty ==
    /\ pc = "diff_entry" /\ patch = << >>
    /\ anchors' = <<1>>
    /\ pc' = "diff_done"
    /\ UNCHANGED <<patch, k, head, adds, ctx, md, files, per, sectVars, mapVars,
                 mainVars, firstVars>>

\* adds, ctx, head = [], [], 1
DiffStart ==
    /\ pc = "diff_entry" /\ patch # << >>
    /\ head' = 1 /\ adds' = << >> /\ ctx' = << >> /\ k' = 1
    /\ pc' = "diff_loop"
    /\ UNCHANGED <<patch, anchors, md, files, per, sectVars, mapVars,
                 mainVars, firstVars>>

DiffIter(ln) ==
    LET st == DiffLine([head |-> head, adds |-> adds, ctx |-> ctx], ln)
    IN  /\ head' = st.head /\ adds' = st.adds /\ ctx' = st.ctx
        /\ k' = k + 1
        /\ UNCHANGED <<pc, patch, anchors, md, files, per, sectVars, mapVars,
                 mainVars, firstVars>>

\* m = re.match(...); if m: head = int(m.group(1)); continue
DiffHunk ==
    /\ pc = "diff_loop" /\ k <= Len(patch)
    /\ HunkStart(patch[k]) # -1
    /\ DiffIter(patch[k])

\* adds.append(head); head += 1; continue
DiffAdd ==
    /\ pc = "diff_loop" /\ k <= Len(patch)
    /\ HunkStart(patch[k]) = -1 /\ IsAddBranch(patch[k])
    /\ DiffIter(patch[k])

\* ctx.append(head); head += 1; continue
DiffCtx ==
    /\ pc = "diff_loop" /\ k <= Len(patch)
    /\ HunkStart(patch[k]) = -1 /\ ~IsAddBranch(patch[k]) /\ IsCtxBranch(patch[k])
    /\ DiffIter(patch[k])

\* a removal line (continue), or a line no branch takes
DiffOther ==
    /\ pc = "diff_loop" /\ k <= Len(patch)
    /\ HunkStart(patch[k]) = -1 /\ ~IsAddBranch(patch[k]) /\ ~IsCtxBranch(patch[k])
    /\ DiffIter(patch[k])

\* return (adds + ctx) or [1]
DiffReturn ==
    /\ pc = "diff_loop" /\ k > Len(patch)
    /\ anchors' = DiffResult(adds, ctx)
    /\ pc' = "diff_done"
    /\ UNCHANGED <<patch, k, head, adds, ctx, md, files, per, sectVars, mapVars,
                 mainVars, firstVars>>

NextDiff ==
    \/ DiffEmpty
    \/ DiffStart
    \/ DiffHunk
    \/ DiffAdd
    \/ DiffCtx
    \/ DiffOther
    \/ DiffReturn

SpecDiff == InitDiff /\ [][NextDiff]_vars

----------------------------------------------------------------------------
(* The kinds of line of a unified diff, as the format defines them.        *)

IsHunkHeader(ln) == HunkStart(ln) # -1
IsFileHeader(ln) == StartsWith(ln, "+++") \/ StartsWith(ln, "---")
IsAdditionLine(ln) == StartsWith(ln, "+") /\ ~IsFileHeader(ln)
IsRemovalLine(ln) == StartsWith(ln, "-") /\ ~IsFileHeader(ln)
IsContextLine(ln) == StartsWith(ln, " ")

AtLine == pc = "diff_loop" /\ k <= Len(patch)

\* C1: the counter starts at 1 and is reset to the after-side start by every
\* hunk header; an addition line yields one ADDED candidate equal to the
\* counter and advances it by one; a context line yields one CONTEXT
\* candidate equal to the counter and advances it by one; a removal line
\* yields nothing and leaves the counter alone; hunk headers and file
\* headers yield no candidate.
C1_CounterFollowsAfterSide ==
    [][ /\ (pc = "diff_entry" /\ pc' = "diff_loop") =>
            (head' = 1 /\ adds' = << >> /\ ctx' = << >>)
        /\ (AtLine /\ k' = k + 1) =>
            LET ln == patch[k] IN
            /\ IsHunkHeader(ln) =>
                 (head' = HunkStart(ln) /\ adds' = adds /\ ctx' = ctx)
            /\ IsAdditionLine(ln) =>
                 (adds' = Append(adds, head) /\ ctx' = ctx /\ head' = head + 1)
            /\ IsContextLine(ln) =>
                 (ctx' = Append(ctx, head) /\ adds' = adds /\ head' = head + 1)
            /\ IsRemovalLine(ln) =>
                 (head' = head /\ adds' = adds /\ ctx' = ctx)
            /\ IsFileHeader(ln) => (adds' = adds /\ ctx' = ctx)
      ]_vars

\* a removal line has been passed after a hunk header moved the counter, and
\* a later addition was numbered
C1_Witness ==
    /\ pc = "diff_loop" /\ k = 4
    /\ HunkStart(patch[1]) = 3
    /\ IsRemovalLine(patch[2])
    /\ IsAdditionLine(patch[3])
    /\ adds = <<3>> /\ head = 4

NumLines(p, Kind(_)) == Cardinality({i \in DOMAIN p : Kind(p[i])})

\* C2: the returned list is never empty; it is the ADDED candidates in diff
\* order followed by the CONTEXT candidates in diff order, one ADDED
\* candidate per addition line; it is exactly [1] for an empty diff and for
\* a diff that yields no candidate.
C2_AddedBeforeContext ==
    pc = "diff_done" =>
        /\ Len(anchors) >= 1
        /\ patch = << >> => anchors = <<1>>
        /\ Len(adds) = NumLines(patch, IsAdditionLine)
        /\ Len(ctx) >= NumLines(patch, IsContextLine)
        /\ IF Len(adds) + Len(ctx) = 0
           THEN anchors = <<1>>
           ELSE /\ Len(anchors) = Len(adds) + Len(ctx)
                /\ \A i \in 1..Len(adds) : anchors[i] = adds[i]
                /\ \A i \in 1..Len(ctx) : anchors[Len(adds) + i] = ctx[i]

\* a context line precedes an addition in the diff, and the addition's
\* candidate is listed first
C2_Witness ==
    /\ pc = "diff_done"
    /\ Len(patch) >= 2 /\ IsContextLine(patch[1]) /\ IsAdditionLine(patch[2])
    /\ Len(adds) >= 1 /\ Len(ctx) >= 1
    /\ anchors[1] = adds[1] /\ anchors[1] > anchors[Len(adds) + 1]

----------------------------------------------------------------------------
(* Python dicts: the sequence of the (key, value) items in insertion order. *)

DictHas(d, key) == \E i \in DOMAIN d : d[i].key = key

\* d.get(key, default)
DictGet(d, key, default) ==
    IF DictHas(d, key) THEN d[CHOOSE i \in DOMAIN d : d[i].key = key].val
    ELSE default

\* d[key] = val: an existing key keeps its place
DictSet(d, key, val) ==
    IF DictHas(d, key)
    THEN [i \in DOMAIN d |-> IF d[i].key = key THEN [key |-> key, val |-> val] ELSE d[i]]
    ELSE Append(d, [key |-> key, val |-> val])

----------------------------------------------------------------------------
(* split_llm_parts                                                         *)

\* FILE_H.match(line.strip()): m.group(1).strip(), or "" when there is no match.
\* FILE_H = ^##\s+(.+\.py)\s*$
FileHName(line) ==
    LET s == Strip(line)
        j == SpacesEnd(s, 3)
        rest == SubSeq(s, j, Len(s))
    IN  IF /\ StartsWith(s, "##") /\ j > 3
           /\ EndsWith(rest, ".py")
           /\ (Len(rest) >= 4 \/ j > 4)
        THEN rest ELSE ""

\* PART_H.match(ln.strip()) is not None.  PART_H = ^###\s+(.+)\s*$
IsPartH(ln) ==
    LET s == Strip(ln)
        j == SpacesEnd(s, 4)
    IN  StartsWith(s, "###") /\ j > 4 /\ j <= Len(s)

\* the first loop, on (sections, cur, buf); cur = "" stands for None
SectionsLine(st, line) ==
    IF FileHName(line) # ""
    THEN [sections |-> IF st.cur # "" /\ st.buf # << >>
                       THEN DictSet(st.sections, st.cur, st.buf) ELSE st.sections,
          cur |-> FileHName(line),
          buf |-> <<line>>]
    ELSE IF st.cur # "" THEN [st EXCEPT !.buf = Append(st.buf, line)]
    ELSE st

RECURSIVE SectionsFold(_, _)
SectionsFold(st, lns) ==
    IF lns = << >> THEN st ELSE SectionsFold(SectionsLine(st, Head(lns)), Tail(lns))

\* the dict sections after the final ~if cur and buf: sections[cur] = buf[:]~
Sections(doc) ==
    LET st == SectionsFold([sections |-> << >>, cur |-> "", buf |-> << >>], doc)
    IN  IF st.cur # "" /\ st.buf # << >>
        THEN DictSet(st.sections, st.cur, st.buf) ELSE st.sections

\* lower = {k.lower(): k for k in sections.keys()}
RECURSIVE LowerKeys(_, _)
LowerKeys(acc, items) ==
    IF items = << >> THEN acc
    ELSE LowerKeys(DictSet(acc, Lower(Head(items).key), Head(items).key), Tail(items))

\* key = sections.get(path) or sections.get(lower.get(path.lower(), ""));
\* << >> stands for None
SectionKeyMutExactOnly(sections, path) == DictGet(sections, path, << >>)

SectionKey(sections, path) ==
    IF DictGet(sections, path, << >>) # << >>
    THEN DictGet(sections, path, << >>)
    ELSE DictGet(sections, DictGet(LowerKeys(<< >>, sections), Lower(path), ""), << >>)

\* the loop over the lines of a block, on (parts, curp)
PartsLine(st, ln) ==
    IF IsPartH(ln)
    THEN [parts |-> IF st.curp # << >> THEN Append(st.parts, st.curp) ELSE st.parts,
          curp |-> <<ln>>]
    ELSE IF st.curp # << >> THEN [st EXCEPT !.curp = Append(st.curp, ln)]
    ELSE st     \* (curp if curp else []).append(ln): appended to a list nobody keeps

RECURSIVE PartsFold(_, _)
PartsFold(st, lns) ==
    IF lns = << >> THEN st ELSE PartsFold(PartsLine(st, Head(lns)), Tail(lns))

RECURSIVE DropBlankHead(_)
DropBlankHead(p) ==
    IF p # << >> /\ Strip(Head(p)) = "" THEN DropBlankHead(Tail(p)) ELSE p

RECURSIVE DropBlankTail(_)
DropBlankTail(p) ==
    IF p # << >> /\ Strip(p[Len(p)]) = ""
    THEN DropBlankTail(SubSeq(p, 1, Len(p) - 1)) ELSE p

\* "\n".join(p).strip()
StripText(p) ==
    LET q == DropBlankTail(DropBlankHead(p))
    IN  [i \in DOMAIN q |->
            IF i = 1 /\ i = Len(q) THEN Strip(q[i])
            ELSE IF i = 1 THEN LStrip(q[i])
            ELSE IF i = Len(q) THEN RStrip(q[i])
            ELSE q[i]]

\* f"## {path}\n_No explicit suggestions from model._"
Placeholder(path) == <<"## " \o path, "_No explicit suggestions from model._">>

\* the list per[path] of one file
PartsOfFile(sections, path) ==
    LET key == SectionKey(sections, path)
        st == PartsFold([parts |-> << >>, curp |-> << >>], key)
        parts == IF st.curp # << >> THEN Append(st.parts, st.curp) ELSE st.parts
        chosen == IF parts # << >> THEN parts ELSE <<key>>
    IN  IF key = << >> THEN <<Placeholder(path)>>
        ELSE [i \in DOMAIN chosen |-> StripText(chosen[i])]

RECURSIVE PerFold(_, _, _)
PerFold(acc, sections, fs) ==
    IF fs = << >> THEN acc
    ELSE PerFold(DictSet(acc, Head(fs).path, PartsOfFile(sections, Head(fs).path)),
                 sections, Tail(fs))

split_llm_parts(doc, fs) == PerFold(<< >>, Sections(doc), fs)

\* the lines the review document is made of
DocLines == {"## a.py", "## A.py", "### Fix", "note", ""}

FilePaths == {"a.py", "A.py", "b.py"}

IsInjective(xs) == \A i, j \in DOMAIN xs : xs[i] = xs[j] => i = j

\* the lists of changed files: ordered, no path twice, at least one
PathLists(n) == {ps \in SeqsUpTo(FilePaths, n) : ps # << >> /\ IsInjective(ps)}

InitSplit ==
    /\ pc = "split_entry"
    /\ md \in SeqsUpTo(DocLines, MaxDocLen)
    /\ \E ps \in PathLists(MaxFiles) :
          files = [i \in DOMAIN ps |-> [path |-> ps[i], content |-> << >>]]
    /\ per = << >>
    /\ patch = << >> /\ k = 0 /\ head = 0 /\ adds = << >> /\ ctx = << >>
    /\ anchors = << >>
    /\ text = << >> /\ spans = << >> /\ found = << >>
    /\ meta = << >> /\ out = << >>
    /\ actionable = << >> /\ fi = 0 /\ pi = 0 /\ posted = 0
    /\ sent = << >> /\ accepted = 0 /\ note = << >> /\ first_added = 0

SplitLlmParts ==
    /\ pc = "split_entry"
    /\ per' = split_llm_parts(md, files)
    /\ pc' = "split_done"
    /\ UNCHANGED <<md, files, diffVars, sectVars, mapVars,
                 mainVars, firstVars>>

NextSplit == SplitLlmParts

SpecSplit == InitSplit /\ [][NextSplit]_vars

----------------------------------------------------------------------------
(* The blocks of a review document, as the document's layout defines them.  *)

RECURSIVE Flatten(_)
Flatten(xss) == IF xss = << >> THEN << >> ELSE Head(xss) \o Flatten(Tail(xss))

NotEmptyLine(s) == s # ""

\* the lines of a text that are not blank, each without surrounding white space
Norm(lns) == SelectSeq([i \in DOMAIN lns |-> Strip(lns[i])], NotEmptyLine)

RECURSIVE IsSubseq(_, _)
IsSubseq(a, b) ==
    \/ a = << >>
    \/ /\ b # << >>
       /\ \/ Head(a) = Head(b) /\ IsSubseq(Tail(a), Tail(b))
          \/ IsSubseq(a, Tail(b))

HeadingIdx(doc) == {i \in DOMAIN doc : FileHName(doc[i]) # ""}

\* the block that the heading at line i opens: up to the next file heading
BlockAt(doc, i) ==
    LET later == {j \in HeadingIdx(doc) : j > i}
        last == IF later = {} THEN Len(doc)
                ELSE (CHOOSE j \in later : \A j2 \in later : j <= j2) - 1
    IN  SubSeq(doc, i, last)

ExactIdx(doc, path) == {i \in HeadingIdx(doc) : FileHName(doc[i]) = path}
AnyCaseIdx(doc, path) == {i \in HeadingIdx(doc) : Lower(FileHName(doc[i])) = Lower(path)}

SubHeadingIdx(b) == {i \in DOMAIN b : IsPartH(b[i])}

FilePathsOf(fs) == {fs[i].path : i \in DOMAIN fs}

\* C7: within one file block every sub-heading starts a new part, the text
\* before the first sub-heading is a leading part of its own, a block with
\* no sub-heading is one part holding the whole block, and no line of the
\* block is lost.
C7_BlockSplitKeepsEveryLine ==
    pc = "split_done" =>
        \A path \in FilePathsOf(files) :
            LET b == SectionKey(Sections(md), path)
                parts == DictGet(per, path, << >>)
                subs == SubHeadingIdx(b)
                first == CHOOSE i \in subs : \A j \in subs : i <= j
            IN  b # << >> =>
                  /\ \A n \in DOMAIN parts : \A i \in 2..Len(parts[n]) :
                         ~IsPartH(parts[n][i])
                  /\ Cardinality({n \in DOMAIN parts : IsPartH(parts[n][1])})
                         = Cardinality(subs)
                  /\ subs = {} => parts = <<StripText(b)>>
                  /\ (subs # {} /\ first > 1) =>
                         parts[1] = StripText(SubSeq(b, 1, first - 1))
                  /\ Norm(Flatten(parts)) = Norm(b)

FromBlock(parts, b) ==
    /\ parts # << >>
    /\ \A n \in DOMAIN parts : parts[n] # << >>
    /\ IsSubseq(Norm(Flatten(parts)), Norm(b))

\* C8: every file of the input list gets a non-empty list of parts; a file
\* whose path heads a block (exactly, else ignoring case) gets parts taken
\* from that block in document order; a file with no block gets exactly the
\* one placeholder part.
C8_EveryFileGetsParts ==
    pc = "split_done" =>
        /\ \A i \in DOMAIN per : per[i].key \in FilePathsOf(files)
        /\ \A path \in FilePathsOf(files) :
            LET parts == DictGet(per, path, << >>) IN
            /\ DictHas(per, path)
            /\ Len(parts) >= 1
            /\ IF ExactIdx(md, path) # {}
               THEN \E i \in ExactIdx(md, path) : FromBlock(parts, BlockAt(md, i))
               ELSE IF AnyCaseIdx(md, path) # {}
               THEN \E i \in AnyCaseIdx(md, path) : FromBlock(parts, BlockAt(md, i))
               ELSE parts = <<Placeholder(path)>>

\* one file is matched only when case is ignored, another has no block
C8_Witness ==
    /\ pc = "split_done"
    /\ \E p1, p2 \in FilePathsOf(files) :
        /\ ExactIdx(md, p1) = {} /\ AnyCaseIdx(md, p1) # {}
        /\ DictGet(per, p1, << >>) # <<Placeholder(p1)>>
        /\ \E n \in DOMAIN DictGet(per, p1, << >>) : IsPartH(DictGet(per, p1, << >>)[n][1])
        /\ AnyCaseIdx(md, p2) = {}
        /\ DictGet(per, p2, << >>) = <<Placeholder(p2)>>

----------------------------------------------------------------------------
(* extract_source_sections and static_suggestions_for_section              *)

\* SECTION_TAG.match(line) is not None.
\* SECTION_TAG = ^\s*#\s*---\s*section:\s*(.+?)\s*---\s*$, ignoring case
SectionTagRest(line) ==
    LET s == Strip(line)
        s1 == LStrip(SubSeq(s, 2, Len(s)))
        s2 == LStrip(SubSeq(s1, 4, Len(s1)))
    IN  IF /\ StartsWith(s, "#") /\ StartsWith(s1, "---")
           /\ StartsWith(Lower(s2), "section:")
        THEN SubSeq(s2, 9, Len(s2)) ELSE ""

IsSectionTag(line) ==
    LET r == SectionTagRest(line) IN EndsWith(r, "---") /\ Len(r) >= 4

\* m.group(1).strip()
SectionTitle(line) ==
    LET r == SectionTagRest(line) IN Strip(SubSeq(r, 1, Len(r) - 3))

\* marks: the (title, i) of the marker lines, i counted from 1
Marks(lns) ==
    LET idx == SelectSeq([i \in DOMAIN lns |-> i], LAMBDA i : IsSectionTag(lns[i]))
    IN  [n \in DOMAIN idx |-> <<SectionTitle(lns[idx[n]]), idx[n]>>]

\* end = (marks[idx + 1][1] - 1) if idx + 1 < len(marks) else len(lines)
SpanEndMutNextMarker(marks, n, nlines) ==
    IF n + 1 <= Len(marks) THEN marks[n + 1][2] ELSE nlines

SpanEnd(marks, n, nlines) ==
    IF n + 1 <= Len(marks) THEN marks[n + 1][2] - 1 ELSE nlines

\* the list of (title, start_line, end_line)
extract_source_sections(lns) ==
    LET marks == Marks(lns)
        sp == [n \in DOMAIN marks |->
                 <<marks[n][1], marks[n][2], SpanEnd(marks, n, Len(lns))>>]
    IN  IF sp = << >> THEN <<<<"entire-file", 1, Len(lns)>>>> ELSE sp

\* Optional[int]: None
NoLine == 0

\* re.search(r"\b<word>\s*\(", line)
SearchCall(line, word) ==
    \E i \in 1..(Len(line) - Len(word) + 1) :
        /\ SubSeq(line, i, i + Len(word) - 1) = word
        /\ (i = 1 \/ ~IsWordChar(Char(line, i - 1)))
        /\ LET j == SpacesEnd(line, i + Len(word))
           IN  j <= Len(line) /\ Char(line, j) = "("

\* re.search(r"except\s+Exception\s*:", line)
SearchBroadExcept(line) ==
    \E i \in 1..(Len(line) - 5) :
        /\ SubSeq(line, i, i + 5) = "except"
        /\ LET j == SpacesEnd(line, i + 6)
               e == SpacesEnd(line, j + 9)
           IN  /\ j > i + 6
               /\ j + 8 <= Len(line) /\ SubSeq(line, j, j + 8) = "Exception"
               /\ e <= Len(line) /\ Char(line, e) = ":"

EvalMd(path) ==
    <<"## " \o path, "### Replace unsafe eval() with ast.literal_eval",
      "Using ~eval~ is a code execution risk. Prefer ~ast.literal_eval~ with error handling.",
      "", "~~~suggestion", "try:", "    import ast", "    return ast.literal_eval(src)",
      "except (ValueError, SyntaxError):", "    return {}", "~~~">>

YamlMd(path) ==
    <<"## " \o path, "### Use yaml.safe_load",
      "Avoid ~yaml.load~ without SafeLoader; use ~yaml.safe_load~.",
      "", "~~~suggestion", "import yaml", "return yaml.safe_load(text)", "~~~">>

ExceptMd(path) ==
    <<"## " \o path, "### Catch specific exceptions",
      "Catching ~Exception~ hides real failures.",
      "", "~~~suggestion", "except FileNotFoundError:", "    return {}", "~~~">>

OpenMd(path) ==
    <<"## " \o path, "### Use a context manager for file I/O",
      "", "~~~suggestion", "with open(path, 'r', encoding='utf-8') as f:",
      "    data = f.read()", "~~~">>

\* the entries one line of a section adds to out, in the order of the checks
StaticLine(path, sect, line, idx) ==
    (IF SearchCall(line, "eval") THEN <<<<EvalMd(path), idx, idx>>>> ELSE << >>)
    \o (IF Contains(line, "yaml.load") /\ ~Contains(JoinStr(sect), "SafeLoader")
        THEN <<<<YamlMd(path), idx, NoLine>>>> ELSE << >>)
    \o (IF SearchBroadExcept(line) THEN <<<<ExceptMd(path), idx, NoLine>>>> ELSE << >>)
    \o (IF SearchCall(line, "open")
           /\ ~\E i \in DOMAIN sect : Contains(sect[i], "with open")
        THEN <<<<OpenMd(path), idx, NoLine>>>> ELSE << >>)

\* the list of (markdown, line, start_line) of one section
static_suggestions_for_section(path, sect, start) ==
    Flatten([i \in DOMAIN sect |-> StaticLine(path, sect, sect[i], start + i - 1)])

\* lines[s - 1:e]
Slice(lns, s, e) ==
    LET lo == IF s < 1 THEN 1 ELSE s
        hi == IF e > Len(lns) THEN Len(lns) ELSE e
    IN  SubSeq(lns, lo, hi)

\* the (md, suggested_line, start_line) of every section, in the order the
\* loops of ensure_actionable_parts meet them
StaticOfSpans(path, lns, sp) ==
    Flatten([n \in DOMAIN sp |->
        static_suggestions_for_section(path, Slice(lns, sp[n][2], sp[n][3]), sp[n][2])])

\* the lines a source file is made of
SrcLines ==
    {"", "x = 1", "# --- section: A ---", "  #---SECTION:b---", "y = eval(s)",
     "except Exception:", "f = open(p)", "with open(p) as f:", "d = yaml.load(t)",
     "yaml.load(t, Loader=SafeLoader)"}

InitSect ==
    /\ pc = "sect_entry"
    /\ text \in SeqsUpTo(SrcLines, MaxTextLen)
    /\ spans = << >> /\ found = << >>
    /\ files = <<[path |-> "a.py", content |-> text]>>
    /\ patch = << >> /\ k = 0 /\ head = 0 /\ adds = << >> /\ ctx = << >>
    /\ anchors = << >>
    /\ md = << >> /\ per = << >>
    /\ meta = << >> /\ out = << >>
    /\ actionable = << >> /\ fi = 0 /\ pi = 0 /\ posted = 0
    /\ sent = << >> /\ accepted = 0 /\ note = << >> /\ first_added = 0

\* for title, s, e in extract_source_sections(text)
ExtractSourceSections ==
    /\ pc = "sect_entry"
    /\ spans' = extract_source_sections(text)
    /\ pc' = "sect_spans"
    /\ UNCHANGED <<text, found, files, diffVars, splitVars, mapVars,
                 mainVars, firstVars>>

\* the static per-section passes over the spans
StaticPasses ==
    /\ pc = "sect_spans"
    /\ found' = StaticOfSpans(files[1].path, text, spans)
    /\ pc' = "sect_done"
    /\ UNCHANGED <<text, spans, files, diffVars, splitVars, mapVars,
                 mainVars, firstVars>>

NextSect ==
    \/ ExtractSourceSections
    \/ StaticPasses

SpecSect == InitSect /\ [][NextSect]_vars

MarkerIdx(lns) == {i \in DOMAIN lns : IsSectionTag(lns[i])}

\* the n-th marker line, counted from 1
NthMarker(lns, n) ==
    CHOOSE i \in MarkerIdx(lns) : Cardinality({j \in MarkerIdx(lns) : j < i}) = n - 1

\* C9: over text with N >= 1 marker lines there are exactly N sections, in
\* marker order, each from its marker's line to the line before the next
\* marker (the last to the last line), so the ranges are disjoint and
\* increasing; over text with no marker there is the one section
\* 'entire-file' from line 1 to the line count.
C9_SectionsFollowMarkers ==
    pc \in {"sect_spans", "sect_done"} =>
        LET nm == Cardinality(MarkerIdx(text)) IN
        IF nm = 0
        THEN spans = <<<<"entire-file", 1, Len(text)>>>>
        ELSE /\ Len(spans) = nm
             /\ \A n \in 1..nm :
                  /\ spans[n][1] = SectionTitle(text[NthMarker(text, n)])
                  /\ spans[n][2] = NthMarker(text, n)
                  /\ spans[n][3] = IF n < nm THEN NthMarker(text, n + 1) - 1
                                   ELSE Len(text)
             /\ \A n \in 1..(nm - 1) : spans[n][3] < spans[n + 1][2]

\* two markers with a line between them
C9_Witness ==
    /\ pc = "sect_done"
    /\ Len(text) = 3 /\ Len(spans) = 2
    /\ spans[1][2] = 1 /\ spans[1][3] = 2 /\ spans[2][2] = 3 /\ spans[2][3] = 3
    /\ spans[1][1] = "A" /\ spans[2][1] = "b"

\* C10: every section has 1 <= startLine <= endLine, and empty file content
\* gives zero sections and zero rule matches.
C10_SectionsWellFormed ==
    /\ pc \in {"sect_spans", "sect_done"} =>
          /\ \A n \in DOMAIN spans : 1 <= spans[n][2] /\ spans[n][2] <= spans[n][3]
          /\ text = << >> => spans = << >>
    /\ pc = "sect_done" => (text = << >> => found = << >>)

----------------------------------------------------------------------------
(* ensure_actionable_parts                                                 *)

\* SUG_RE.search(line) is not None.  SUG_RE = ~~~suggestion\b, ignoring case
SearchSuggestion(line) ==
    \E i \in 1..(Len(line) - 12) :
        /\ SubSeq(line, i, i + 2) = "~~~"
        /\ Lower(SubSeq(line, i + 3, i + 12)) = "suggestion"
        /\ (i + 13 > Len(line) \/ ~IsWordChar(Char(line, i + 13)))

\* SUG_RE.search(part or "") over the lines of a part
HasSuggestion(part) == \E i \in DOMAIN part : SearchSuggestion(part[i])

\* patch_by_path = {m["filename"]: (m.get("patch") or "") for m in meta}
RECURSIVE PatchByPath(_, _)
PatchByPath(acc, ms) ==
    IF ms = << >> THEN acc
    ELSE PatchByPath(DictSet(acc, Head(ms).filename, Head(ms).patch), Tail(ms))

\* anchors = diff_anchor_lines(patch_by_path.get(path, ""))
AnchorsOf(ms, path) == diff_anchor_lines(DictGet(PatchByPath(<< >>, ms), path, << >>))

\* current = lines[line - 1] if 1 <= line <= len(lines) else ""
CurrentLine(lns, line) == IF 1 <= line /\ line <= Len(lns) THEN lns[line] ELSE ""

\* new_line = (current if current.strip() else "#")
\*            + ("  # review-bot" if "review-bot" not in current else "")
NewLine(current) ==
    (IF Strip(current) # "" THEN current ELSE "#")
    \o (IF ~Contains(current, "review-bot") THEN "  # review-bot" ELSE "")

\* part + "\n\n~~~suggestion\n" + new_line + "\n~~~"
Fabricate(part, new_line) == part \o <<"", "~~~suggestion", new_line, "~~~">>

\* the body of a document part as it is appended to parts
ActionableMutAlwaysAppend(part, lns, line) ==
    Fabricate(part, NewLine(CurrentLine(lns, line)))

Actionable(part, lns, line) ==
    IF ~HasSuggestion(part)
    THEN Fabricate(part, NewLine(CurrentLine(lns, line)))
    ELSE part

\* line = anchors[0] if anchors else 1, for the i-th document part (from 0)
LlmAnchorMutPositional(anch, i) ==
    IF anch = << >> THEN 1
    ELSE IF i + 1 <= Len(anch) THEN anch[i + 1] ELSE anch[Len(anch)]

LlmAnchor(anch, i) == IF anch # << >> THEN anch[1] ELSE 1

\* 1) LLM parts first
LlmParts(llm, lns, anch) ==
    [i \in DOMAIN llm |->
        <<Actionable(llm[i], lns, LlmAnchor(anch, i - 1)), LlmAnchor(anch, i - 1), NoLine>>]

Abs(n) == IF n < 0 THEN -n ELSE n

\* min(anchors, key=lambda a: abs(a - suggested_line)) if anchors else 1:
\* min returns the first of the items with the smallest key
Nearest(anch, suggested_line) ==
    IF anch = << >> THEN 1
    ELSE anch[CHOOSE i \in DOMAIN anch :
                 \A j \in DOMAIN anch :
                    \/ Abs(anch[i] - suggested_line) < Abs(anch[j] - suggested_line)
                    \/ /\ Abs(anch[i] - suggested_line) = Abs(anch[j] - suggested_line)
                       /\ i <= j]

\* the entry appended for one static finding (md, suggested_line, start_line)
StaticPartMutNoCheck(anch, s) == <<s[1], s[2], s[3]>>

StaticPartMutKeepStart(anch, s) ==
    IF s[2] \in Range(anch) THEN <<s[1], s[2], s[3]>>
    ELSE <<s[1], Nearest(anch, s[2]), s[3]>>

StaticPart(anch, s) ==
    IF s[2] \in Range(anch) THEN <<s[1], s[2], s[3]>>
    ELSE <<s[1], Nearest(anch, s[2]), NoLine>>

\* 2) Static per-section passes
StaticParts(path, lns, anch) ==
    LET st == StaticOfSpans(path, lns, extract_source_sections(lns))
    IN  [i \in DOMAIN st |-> StaticPart(anch, st[i])]

\* guarantee at least one part
NoIssuesPart(path, lns, anch) ==
    LET line == IF anch # << >> THEN anch[1] ELSE 1
    IN  <<<<"## " \o path, "_No issues detected._", "", "~~~suggestion",
            NewLine(CurrentLine(lns, line)), "~~~">>, line, NoLine>>

\* the list out[path] of one file
PartsForFile(f, llm, ms) ==
    LET lns == f.content
        anch == AnchorsOf(ms, f.path)
        parts == LlmParts(llm, lns, anch) \o StaticParts(f.path, lns, anch)
    IN  IF parts = << >> THEN <<NoIssuesPart(f.path, lns, anch)>> ELSE parts

RECURSIVE OutFold(_, _, _, _)
OutFold(acc, fs, perFile, ms) ==
    IF fs = << >> THEN acc
    ELSE OutFold(DictSet(acc, Head(fs).path,
                         PartsForFile(Head(fs), DictGet(perFile, Head(fs).path, << >>), ms)),
                 Tail(fs), perFile, ms)

ensure_actionable_parts(fs, perFile, ms) == OutFold(<< >>, fs, perFile, ms)

\* the lines of the patches and files handed to ensure_actionable_parts
MapDiffLines == {"@@ -1 +3 @@", "+x = 1", " x = 1"}
MapSrcLines == {"", "x = 1  # review-bot", "y = eval(s)"}

\* the bodies of the document parts handed to it
MapPartBodies ==
    {<<"### Fix", "note">>, <<"### Fix", "~~~suggestion", "x = 2", "~~~">>}

\* One changed file.  The pull request's file list names it with its patch
\* or (a list cut short) does not name it; per_file_from_llm holds the
\* file's document parts, or has no entry for it.
InitMap ==
    /\ pc = "map_entry"
    /\ \E c \in SeqsUpTo(MapSrcLines, MapTextLen) :
          files = <<[path |-> "a.py", content |-> c]>>
    /\ \/ meta = << >>
       \/ \E p \in SeqsUpTo(MapDiffLines, MapPatchLen) :
             meta = <<[filename |-> "a.py", patch |-> p]>>
    /\ \E ps \in SeqsUpTo(MapPartBodies, MaxParts) :
          per = IF ps = << >> THEN << >> ELSE <<[key |-> "a.py", val |-> ps]>>
    /\ out = << >>
    /\ patch = << >> /\ k = 0 /\ head = 0 /\ adds = << >> /\ ctx = << >>
    /\ anchors = << >>
    /\ md = << >> /\ text = << >> /\ spans = << >> /\ found = << >>
    /\ actionable = << >> /\ fi = 0 /\ pi = 0 /\ posted = 0
    /\ sent = << >> /\ accepted = 0 /\ note = << >> /\ first_added = 0

EnsureActionableParts ==
    /\ pc = "map_entry"
    /\ out' = ensure_actionable_parts(files, per, meta)
    /\ pc' = "map_done"
    /\ UNCHANGED <<files, per, meta, md, diffVars, sectVars, mainVars, firstVars>>

NextMap == EnsureActionableParts

SpecMap == InitMap /\ [][NextMap]_vars

----------------------------------------------------------------------------
(* What ensure_actionable_parts was given and returned, for the one file.   *)

MapDone == pc = "map_done"
ThePath == files[1].path
TheLines == files[1].content
\* the file's candidate list
Candidates == AnchorsOf(meta, ThePath)
\* the file's document parts
DocParts == DictGet(per, ThePath, << >>)
\* the rule matches (md, exact line, range start) of the file, in order
RuleMatches == StaticOfSpans(ThePath, TheLines, extract_source_sections(TheLines))
\* the mapped parts (body, anchor line, range start) of the file
Mapped == DictGet(out, ThePath, << >>)
\* the mapped part of the i-th rule match
RulePart(i) == Mapped[Len(DocParts) + i]

\* C3: every anchor line given to a part of a file (document part,
\* rule-derived part or the synthetic 'no issues' part) is in the file's
\* candidate list, and a rule-derived part whose exact line is in the
\* candidate list is anchored at exactly that line.
C3_AnchorsAreCandidates ==
    MapDone =>
        /\ Len(Mapped) >= 1
        /\ Len(DocParts) + Len(RuleMatches) >= 1 =>
               Len(Mapped) = Len(DocParts) + Len(RuleMatches)
        /\ \A n \in DOMAIN Mapped : Mapped[n][2] \in Range(Candidates)
        /\ \A i \in DOMAIN RuleMatches :
               RuleMatches[i][2] \in Range(Candidates) =>
                   RulePart(i)[2] = RuleMatches[i][2]

\* a document part and two rule-derived parts, one with its exact line in
\* the candidate list and one without
C3_Witness ==
    /\ MapDone
    /\ Len(DocParts) >= 1
    /\ \E i, j \in DOMAIN RuleMatches :
        /\ RuleMatches[i][2] \in Range(Candidates)
        /\ RulePart(i)[2] = RuleMatches[i][2]
        /\ RulePart(i)[2] # Candidates[1]
        /\ RuleMatches[j][2] \notin Range(Candidates)

Dist(a, b) == IF a < b THEN b - a ELSE a - b

\* C4: a rule-derived line that is not in the candidate list is anchored at
\* the candidate nearest to it, and of two equally near candidates at the
\* one with the smaller line number.
C4_NearestSmallerOnTie ==
    MapDone =>
        \A i \in DOMAIN RuleMatches :
            LET s == RuleMatches[i][2]
                c == RulePart(i)[2]
            IN  s \notin Range(Candidates) =>
                  /\ c \in Range(Candidates)
                  /\ \A a \in Range(Candidates) :
                        \/ Dist(c, s) < Dist(a, s)
                        \/ Dist(c, s) = Dist(a, s) /\ c <= a

\* the i-th candidate, the last one once the candidates are exhausted
Positional(i) == IF i <= Len(Candidates) THEN Candidates[i] ELSE Candidates[Len(Candidates)]

\* C5 as claimed: the i-th document part gets the i-th candidate, and every
\* part past the end of the candidates gets the last candidate.
C5_PositionalAnchors ==
    MapDone => \A i \in DOMAIN DocParts : Mapped[i][2] = Positional(i)

\* C5 as amended: every document part of a file gets the first candidate of
\* the file's candidate list, and no range start.
C5_DocumentPartsAtFirstCandidate ==
    MapDone =>
        \A i \in DOMAIN DocParts :
            Mapped[i][2] = Candidates[1] /\ Mapped[i][3] = NoLine

\* two document parts and two different candidates
C5_Witness ==
    /\ MapDone
    /\ Len(DocParts) = 2 /\ Len(Candidates) >= 2 /\ Candidates[1] # Candidates[2]
    /\ Mapped[1][2] = Candidates[1] /\ Mapped[2][2] = Candidates[1]

\* the lines of a body that open a replacement block
FenceLines(body) == {i \in DOMAIN body : SearchSuggestion(body[i])}

AnchorIsBlank(n) ==
    \/ Mapped[n][2] < 1
    \/ Mapped[n][2] > Len(TheLines)
    \/ Strip(TheLines[Mapped[n][2]]) = ""

\* C6: every returned body holds a replacement block; a document part with
\* no fence comes out as its text plus exactly one block, holding the
\* source line at its anchor (marked for the bot) or a comment placeholder
\* when that line is blank or out of range; a document part with a fence
\* comes out unchanged.
C6_EveryPartHasReplacementBlock ==
    MapDone =>
        /\ \A n \in DOMAIN Mapped : FenceLines(Mapped[n][1]) # {}
        /\ \A i \in DOMAIN DocParts :
            LET before == DocParts[i]
                after == Mapped[i][1]
            IN  IF FenceLines(before) # {}
                THEN after = before
                ELSE /\ Len(after) = Len(before) + 4
                     /\ SubSeq(after, 1, Len(before)) = before
                     /\ FenceLines(after) = {Len(before) + 2}
                     /\ after[Len(before) + 1] = ""
                     /\ after[Len(after)] = "~~~"
                     /\ LET new == after[Len(before) + 3] IN
                        IF AnchorIsBlank(i)
                        THEN new = "#  # review-bot"
                        ELSE /\ StartsWith(new, TheLines[Mapped[i][2]])
                             /\ Contains(new, "review-bot")
                             /\ new \in {TheLines[Mapped[i][2]],
                                         TheLines[Mapped[i][2]] \o "  # review-bot"}

\* a part with a fence and a part without one, anchored past the end of
\* the file
C6_Witness ==
    /\ MapDone
    /\ Len(DocParts) = 2
    /\ FenceLines(DocParts[1]) # {} /\ Mapped[1][1] = DocParts[1]
    /\ FenceLines(DocParts[2]) = {} /\ Mapped[2][2] > Len(TheLines)
    /\ Mapped[2][1][Len(Mapped[2][1]) - 1] = "#  # review-bot"

-----------------------------------------------------------------------------
(* main: the posting loop and the fallback comment                         *)
(*                                                                         *)
(* A body is cut by characters, so the bodies handed to gh are texts: the  *)
(* lines of a part joined by line terminators.  The four characters that   *)
(* follow "### " in the heading of the fallback comment are not ASCII and  *)
(* are written "bot:".                                                     *)

\* the cap of body_md[:65000]
BodyCap == 65000

\* s[:n]
Cut(s, n) == IF Len(s) <= n THEN s ELSE SubSeq(s, 1, n)

\* sep.join(xs)
RECURSIVE JoinWith(_, _)
JoinWith(xs, sep) ==
    IF xs = << >> THEN ""
    ELSE IF Len(xs) = 1 THEN xs[1]
    ELSE xs[1] \o sep \o JoinWith(Tail(xs), sep)

\* the texts static_suggestions_for_section builds for a path: each ends
\* with a line terminator, which its list of lines does not show
RuleMds(path) == {EvalMd(path), YamlMd(path), ExceptMd(path), OpenMd(path)}

\* the text of the body of a part of the file at path; the text of a
\* document part is stripped and ends with no line terminator
MdText(path, body) ==
    JoinWith(body, "\n") \o (IF body \in RuleMds(path) THEN "\n" ELSE "")

\* start_line as post_inline_comment puts it in the payload, NoLine when the
\* payload has no start_line
PayloadStart(line, start_line) ==
    IF start_line # NoLine /\ start_line <= line THEN start_line ELSE NoLine

\* the payload post_inline_comment hands to gh for a part (md, line, start)
Payload(path, part) ==
    [path |-> path, line |-> part[2],
     body |-> Cut(MdText(path, part[1]), BodyCap),
     start_line |-> PayloadStart(part[2], part[3])]

\* if posted == 0
NeedsFallbackMutNever(p) == FALSE

NeedsFallback(p) == p = 0

\* "## {p}\n" + "\n\n---\n\n".join(md for md, _, _ in arr)
FileDigest(item) ==
    "## " \o item.key \o "\n"
    \o JoinWith([i \in DOMAIN item.val |-> MdText(item.key, item.val[i][1])],
                "\n\n---\n\n")

\* "\n\n".join(body)[:65000]
FallbackBody(act) ==
    Cut(JoinWith(<<"### bot: Review Bot (fallback)">>
                 \o [i \in DOMAIN act |-> FileDigest(act[i])], "\n\n"),
        BodyCap)

\* the position of the loops after the part at (f, p) of act; ok is what
\* post_inline_comment returned for it
AdvanceMutRetry(act, f, p, ok) ==
    IF ~ok THEN <<f, p>>
    ELSE IF p < Len(act[f].val) THEN <<f, p + 1>> ELSE <<f + 1, 1>>

Advance(act, f, p, ok) ==
    IF p < Len(act[f].val) THEN <<f, p + 1>> ELSE <<f + 1, 1>>

\* the changed files of a run: at most MaxRunFiles of them
MaxRunFiles == 2

RunPaths == <<"a.py", "b.py", "c.py", "d.py">>

\* the content of a changed file with its patch: no patch; a patch that does
\* not cover the line of the eval call; a patch that adds that line
RunFileKinds ==
    {[content |-> <<"x = 1">>, patch |-> << >>],
     [content |-> <<"x = 1", "y = eval(s)">>,
      patch |-> <<"@@ -1 +1 @@", "+x = 1">>],
     [content |-> <<"x = 1", "y = eval(s)">>,
      patch |-> <<"@@ -1,0 +2 @@", "+y = eval(s)">>]}

\* review documents: none, parts for one file, parts for two files
RunDocs ==
    {<< >>,
     <<"## a.py", "### Fix", "### Nit">>,
     <<"## a.py", "### Fix", "## b.py", "### Fix", "~~~suggestion", "x = 2", "~~~">>}

\* the number of comments the older create_review_with_comments keeps
MaxComments == 50

\* the content of a file with one rule match more than that
LongSrc == [i \in 1..(MaxComments + 1) |-> "y = eval(s)"]

RECURSIVE Pow2Str(_, _)
Pow2Str(s, n) == IF n = 0 THEN s ELSE LET h == Pow2Str(s, n - 1) IN h \o h

\* a review document with a part longer than the cap of a body
BigDoc == <<"## a.py", "### Fix", Pow2Str("x", 16)>>

RunFiles(ks) == [i \in DOMAIN ks |-> [path |-> RunPaths[i], content |-> ks[i].content]]

RunMeta(ks) == [i \in DOMAIN ks |-> [filename |-> RunPaths[i], patch |-> ks[i].patch]]

InitMain ==
    /\ pc = "main_entry"
    /\ \/ \E n \in 0..MaxRunFiles : \E ks \in [1..n -> RunFileKinds] :
            /\ files = RunFiles(ks) /\ meta = RunMeta(ks)
            /\ md \in RunDocs
       \/ \E kd \in RunFileKinds :
            /\ files = RunFiles(<<kd>>) /\ meta = RunMeta(<<kd>>)
            /\ md = BigDoc
       \/ /\ files = RunFiles(<<[content |-> LongSrc, patch |-> << >>]>>)
          /\ meta = RunMeta(<<[content |-> LongSrc, patch |-> << >>]>>)
          /\ md = << >>
    /\ per = << >> /\ out = << >>
    /\ actionable = << >> /\ fi = 0 /\ pi = 0 /\ posted = 0
    /\ sent = << >> /\ accepted = 0 /\ note = << >> /\ first_added = 0
    /\ patch = << >> /\ k = 0 /\ head = 0 /\ adds = << >> /\ ctx = << >>
    /\ anchors = << >>
    /\ text = << >> /\ spans = << >> /\ found = << >>

\* if not files: the "no Python file changes" comment, and return
MainNoFiles ==
    /\ pc = "main_entry" /\ files = << >>
    /\ pc' = "done"
    /\ UNCHANGED <<files, md, per, diffVars, sectVars, mapVars, mainVars, firstVars>>

\* split_llm_parts, ensure_actionable_parts, post_summary_review; gh raises
\* SystemExit when the summary review is answered with an error status
MainPrepare(ok) ==
    /\ pc = "main_entry" /\ files # << >>
    /\ per' = split_llm_parts(md, files)
    /\ actionable' = ensure_actionable_parts(files, per', meta)
    /\ IF ok THEN pc' = "post" /\ fi' = 1 /\ pi' = 1
             ELSE pc' = "exit" /\ UNCHANGED <<fi, pi>>
    /\ UNCHANGED <<files, md, posted, sent, accepted, note,
                   diffVars, sectVars, mapVars, firstVars>>

\* one pass of the inner loop: post_inline_comment hands the payload to gh
\* and returns True, or catches the SystemExit of an error status and
\* returns False
PostInline(ok) ==
    /\ pc = "post" /\ fi <= Len(actionable)
    /\ sent' = Append(sent, Payload(actionable[fi].key, actionable[fi].val[pi]))
    /\ accepted' = IF ok THEN accepted + 1 ELSE accepted
    /\ posted' = IF ok THEN posted + 1 ELSE posted
    /\ fi' = Advance(actionable, fi, pi, ok)[1]
    /\ pi' = Advance(actionable, fi, pi, ok)[2]
    /\ UNCHANGED <<pc, files, md, per, actionable, note,
                   diffVars, sectVars, mapVars, firstVars>>

\* else: print the count of inline comments
FinishPosted ==
    /\ pc = "post" /\ fi > Len(actionable)
    /\ ~NeedsFallback(posted)
    /\ pc' = "done"
    /\ UNCHANGED <<files, md, per, diffVars, sectVars, mapVars, mainVars, firstVars>>

\* if posted == 0: the fallback comment; an error status ends the run with
\* SystemExit
PostFallback(ok) ==
    /\ pc = "post" /\ fi > Len(actionable)
    /\ NeedsFallback(posted)
    /\ note' = Append(note, FallbackBody(actionable))
    /\ pc' = IF ok THEN "done" ELSE "exit"
    /\ UNCHANGED <<files, md, per, actionable, fi, pi, posted, sent, accepted,
                   diffVars, sectVars, mapVars, firstVars>>

NextMain ==
    \/ MainNoFiles
    \/ \E ok \in BOOLEAN : MainPrepare(ok)
    \/ \E ok \in BOOLEAN : PostInline(ok)
    \/ FinishPosted
    \/ \E ok \in BOOLEAN : PostFallback(ok)

SpecMain == InitMain /\ [][NextMain]_vars

-----------------------------------------------------------------------------
(* The run after its last step, and what it handed to the posting boundary *)

RunEnded == pc \in {"done", "exit"}

\* the run had changed files and went through every part of every file
AllAttempted == RunEnded /\ actionable # << >> /\ fi > Len(actionable)

\* the texts of the bodies of the mapped parts of the i-th file
BodiesOf(i) ==
    [j \in DOMAIN actionable[i].val |->
        MdText(actionable[i].key, actionable[i].val[j][1])]

HorizontalRule == "\n\n---\n\n"

\* every part of every file in one text: a heading, then for each file its
\* path and its bodies with a horizontal rule between them
FullDigest ==
    JoinWith(<<"### bot: Review Bot (fallback)">>
             \o [i \in DOMAIN actionable |->
                   "## " \o actionable[i].key \o "\n"
                   \o JoinWith(BodiesOf(i), HorizontalRule)],
             "\n\n")

\* C11: in a run with at least one changed file, once every inline post has
\* been attempted, one fallback note has been handed to the boundary if no
\* inline post was accepted and none otherwise; the note is the text that
\* holds the bodies of all parts of every file, those of one file separated
\* by a horizontal rule, cut to BodyCap characters.  So the run never ends
\* with neither an accepted inline comment nor a fallback note.
C11_FallbackIffNoneAccepted ==
    AllAttempted =>
        /\ Len(note) = (IF accepted = 0 THEN 1 ELSE 0)
        /\ accepted > 0 \/ note # << >>
        /\ note # << >> =>
            /\ \A i \in DOMAIN actionable :
                  Contains(FullDigest, JoinWith(BodiesOf(i), HorizontalRule))
            /\ Len(note[1]) <= BodyCap
            /\ note[1] = Cut(FullDigest, BodyCap)
            /\ Len(FullDigest) <= BodyCap =>
                  \A i \in DOMAIN actionable : \A j \in DOMAIN BodiesOf(i) :
                      Contains(note[1], BodiesOf(i)[j])

\* every post of a run over two files was rejected, one of the files has
\* several parts, and the note holds them all
C11_Witness ==
    /\ AllAttempted /\ accepted = 0 /\ Len(sent) >= 3
    /\ Len(actionable) = 2 /\ Len(note) = 1
    /\ Len(note[1]) < BodyCap
    /\ \E i \in DOMAIN actionable : Len(actionable[i].val) >= 2

\* C12: no run hands more than MaxComments (50) inline-comment requests to
\* the posting boundary, whatever the number of files, document parts and
\* rule matches.
C12_AtMostFiftyInline == Len(sent) <= MaxComments

-----------------------------------------------------------------------------
(* first_added_line_from_patch of the older .github/review_bot/main.py     *)

\* the loop, on line_num_head; the second test for an addition line is
\* never reached
RECURSIVE FirstAddedFold(_, _)
FirstAddedFold(line_num_head, lns) ==
    IF lns = << >> THEN (IF line_num_head > 1 THEN line_num_head ELSE 1)
    ELSE LET ln == Head(lns) IN
         IF HunkStart(ln) # -1 THEN FirstAddedFold(HunkStart(ln), Tail(lns))
         ELSE IF StartsWith(ln, "+") /\ ~StartsWith(ln, "+++") THEN line_num_head
         ELSE IF /\ ~StartsWith(ln, "-") /\ ~StartsWith(ln, "@@")
                 /\ ~StartsWith(ln, "+++") /\ ~StartsWith(ln, "---")
              THEN FirstAddedFold(line_num_head + 1, Tail(lns))
              ELSE FirstAddedFold(line_num_head, Tail(lns))

first_added_line_from_patch(p) == IF p = << >> THEN 1 ELSE FirstAddedFold(1, p)

InitFirst ==
    /\ pc = "first_entry"
    /\ patch \in SeqsUpTo(DiffLines, MaxPatchLen)
    /\ first_added = 0
    /\ k = 0 /\ head = 0 /\ adds = << >> /\ ctx = << >> /\ anchors = << >>
    /\ md = << >> /\ files = << >> /\ per = << >>
    /\ text = << >> /\ spans = << >> /\ found = << >>
    /\ meta = << >> /\ out = << >>
    /\ actionable = << >> /\ fi = 0 /\ pi = 0 /\ posted = 0
    /\ sent = << >> /\ accepted = 0 /\ note = << >>

\* line = first_added_line_from_patch(patch)
FirstAddedLineFromPatch ==
    /\ pc = "first_entry"
    /\ first_added' = first_added_line_from_patch(patch)
    /\ pc' = "first_done"
    /\ UNCHANGED <<diffVars, splitVars, sectVars, mapVars, mainVars, files>>

NextFirst == FirstAddedLineFromPatch

SpecFirst == InitFirst /\ [][NextFirst]_vars

\* the after-side line number of the i-th line of a diff: 1 at the start,
\* the after-side start of the last hunk header before it, one more for
\* every addition line and context line passed since
RECURSIVE AfterSideLine(_, _)
AfterSideLine(p, i) ==
    IF i = 1 THEN 1
    ELSE IF IsHunkHeader(p[i - 1]) THEN HunkStart(p[i - 1])
    ELSE IF IsAdditionLine(p[i - 1]) \/ IsContextLine(p[i - 1])
         THEN AfterSideLine(p, i - 1) + 1
         ELSE AfterSideLine(p, i - 1)

AdditionLines(p) == {i \in DOMAIN p : IsAdditionLine(p[i])}

\* C13: first_added_line_from_patch returns the after-side line number of
\* the first addition line of the diff, and 1 whenever the diff has no
\* addition line (an empty diff, or one of context and removal lines only).
C13_FirstAddedLineOrOne ==
    pc = "first_done" =>
        IF AdditionLines(patch) = {}
        THEN first_added = 1
        ELSE first_added =
                AfterSideLine(patch, CHOOSE i \in AdditionLines(patch) :
                                        \A j \in AdditionLines(patch) : i <= j)

-----------------------------------------------------------------------------
(* The order of the inline posts                                           *)

\* the mapped parts of the run as <<path, part>>, file after file and
\* within a file part after part
AllParts ==
    Flatten([i \in DOMAIN actionable |->
                [j \in DOMAIN actionable[i].val |->
                    <<actionable[i].key, actionable[i].val[j]>>]])

\* C14: a rejected inline post neither stops the run nor is retried: the
\* n-th inline request is for the n-th mapped part in file order and part
\* order, a run that has begun posting ends only after the last part, with
\* one request per part, whatever subset of the posts was rejected, and
\* posted counts exactly the accepted ones.
C14_EachPartAttemptedOnceInOrder ==
    /\ Len(sent) <= Len(AllParts)
    /\ \A n \in DOMAIN sent :
          /\ sent[n].path = AllParts[n][1]
          /\ sent[n].line = AllParts[n][2][2]
          /\ sent[n].body = Cut(MdText(AllParts[n][1], AllParts[n][2][1]), BodyCap)
    /\ posted = accepted
    /\ (RunEnded /\ sent # << >>) => Len(sent) = Len(AllParts)
    /\ AllAttempted => Len(sent) = Len(AllParts)
    /\ (pc = "post" /\ Len(sent) < Len(AllParts)) => fi <= Len(actionable)

\* a run over two files ended with some posts rejected and some accepted
C14_Witness ==
    /\ AllAttempted /\ Len(actionable) = 2
    /\ Len(sent) >= 3
    /\ accepted >= 1 /\ accepted < Len(sent)
    /\ posted = accepted

-----------------------------------------------------------------------------
(* Range starts                                                            *)

\* the lines of the i-th changed file that call eval, and its candidates
EvalLinesOf(i) ==
    {n \in DOMAIN files[i].content : SearchCall(files[i].content[n], "eval")}

CandidatesOf(i) == Range(AnchorsOf(meta, files[i].path))

\* the mapped parts of the i-th changed file
PartsOf(i) == DictGet(actionable, files[i].path, << >>)

\* C15: a range start never exceeds its anchor line.  A mapped part carries
\* a range start only when it is a rule-derived part anchored at its exact
\* line, a candidate; a rule-derived part whose line is no candidate, moved
\* to the nearest one, carries none; and a request carries start_line only
\* when its part has one that is at most the anchor line.
C15_RangeStartWithinAnchor ==
    (pc # "main_entry" /\ files # << >>) =>
        /\ \A i \in DOMAIN files : \A j \in DOMAIN PartsOf(i) :
              LET part == PartsOf(i)[j] IN
              part[3] # NoLine =>
                  /\ part[3] <= part[2]
                  /\ part[2] = part[3]
                  /\ part[1] = EvalMd(files[i].path)
                  /\ part[3] \in EvalLinesOf(i) \cap CandidatesOf(i)
        /\ \A i \in DOMAIN files :
              /\ \A n \in EvalLinesOf(i) \cap CandidatesOf(i) :
                    \E j \in DOMAIN PartsOf(i) :
                        PartsOf(i)[j] = <<EvalMd(files[i].path), n, n>>
              /\ Cardinality({j \in DOMAIN PartsOf(i) :
                                /\ PartsOf(i)[j][1] = EvalMd(files[i].path)
                                /\ PartsOf(i)[j][3] = NoLine
                                /\ PartsOf(i)[j][2] \in CandidatesOf(i)})
                   = Cardinality(EvalLinesOf(i) \ CandidatesOf(i))
        /\ \A n \in DOMAIN sent :
              /\ sent[n].start_line # NoLine =>
                    /\ sent[n].start_line <= sent[n].line
                    /\ sent[n].start_line = AllParts[n][2][3]
              /\ (AllParts[n][2][3] # NoLine /\ AllParts[n][2][3] <= AllParts[n][2][2])
                    => sent[n].start_line = AllParts[n][2][3]

\* one file's eval line is a candidate and its request carries the range
\* start; the other file's eval line is none and its part was moved
C15_Witness ==
    /\ AllAttempted /\ Len(files) = 2
    /\ \E n \in DOMAIN sent :
          sent[n].start_line # NoLine /\ sent[n].start_line = sent[n].line
    /\ \E i \in DOMAIN files : \E j \in DOMAIN PartsOf(i) :
          /\ PartsOf(i)[j][1] = EvalMd(files[i].path)
          /\ PartsOf(i)[j][3] = NoLine
          /\ PartsOf(i)[j][2] \notin EvalLinesOf(i)

====
